---------------------------- MODULE Spec2Model ----------------------------
(***************************************************************************)
(* Model of the Chimera "Raman Whisper" pipeline (python_src/chimera):     *)
(* bit primitives, LDPC generator construction, frame assembly, QPSK       *)
(* mapping and slicing, frame synchronisation, per-frame decoding and      *)
(* message recovery, driven by run_simulation.                             *)
(*                                                                         *)
(* Conventions.  Python arrays are TLA+ sequences (index i of the code is  *)
(* index i+1 here).  An optional value is <<>> (None) or <<v>>.  A call    *)
(* that can raise returns a record whose field err is "" on success and    *)
(* the exception otherwise.  Phases are counted in units of pi/4.          *)
(* Python integers are unbounded; the command word is therefore held as    *)
(* the set of its one-bit positions (bit i has weight 2^i).                *)
(***************************************************************************)
EXTENDS Integers, Sequences, FiniteSets, TLC

VARIABLES
    pc,            \* position of run_simulation: "start", "matrices", "encoded", "done", "failed"
    plaintext,     \* the plaintext argument of run_simulation (None or a string)
    sim_config,    \* SimulationConfig: snr_db, rng_seed
    ldpc_config,   \* LDPCConfig: seed
    rng,           \* the rng argument: None or a generator [seed, pos]
    matrices,      \* LDPCMatrices built by create_ldpc_matrices (None before)
    encoding,      \* EncodingResult (None before, and when modulation raised)
    demodulation,  \* DemodulationResult (None before, and when demodulation raised)
    error,         \* the exception that ended the run, "" when none
    frames_built,  \* frames appended by build_full_bitstream when it ended
    sync_location, \* sync_location of demodulate_and_decode (-1: not found / not run)
    numpy_raises,  \* whether this numpy raises on comparing arrays of different
                   \* lengths (None until a run has made such a comparison)
    run,           \* 1 for the first run, 2 for the repetition with the same arguments
    prev,          \* outputs of the first run, kept to compare the repetition with
    call,          \* a function called on its own: its name and arguments (None: none)
    ret,           \* what that call returned or raised (None while it has not returned)
    recovery       \* the locals of _timing_and_carrier_recovery_impl (None: not called)

vars == <<pc, plaintext, sim_config, ldpc_config, rng, matrices, encoding,
          demodulation, error, frames_built, sync_location, numpy_raises, run, prev,
          call, ret, recovery>>

None == <<>>
Some(v) == <<v>>

--------------------------------------------------------------------------
(* Bounds of the model. *)

\* texts of 0..MaxShortLen characters are tried besides the frame-boundary lengths
MaxShortLen == 1
\* SimulationConfig.rng_seed ranges over None and 0..MaxSeed
MaxSeed == 1
\* entropy seeds and draws of the noise generator range over 0..MaxNoiseDraw
MaxNoiseDraw == 4
\* draws of the LDPC construction's generator range over 0..MaxLdpcDraw
MaxLdpcDraw == 1

--------------------------------------------------------------------------
(* config.py: FrameLayout, ProtocolConfig, LDPCConfig, SimulationConfig *)

total_symbols == 128
sync_symbols == 16
target_id_symbols == 16
command_type_symbols == 16
data_payload_symbols == 64
ecc_symbols == 16

message_bits == data_payload_symbols * 2
ecc_bits == ecc_symbols * 2
codeword_bits == message_bits + ecc_bits
frame_bits == total_symbols * 2

command_opcode == 1
max_frames == 256
current_frame_shift == 16
total_frames_shift == 24
\* "A5A5A5A5" and "DEADBEEF" as sequences of hexadecimal digits
sync_sequence_hex == <<10, 5, 10, 5, 10, 5, 10, 5>>
target_id_hex == <<13, 14, 10, 13, 11, 14, 14, 15>>

dv == 2
dc == 10
default_ldpc_seed == 42

default_snr_db == 3
\* SimulationConfig.plaintext_source, as code points
plaintext_source ==
  << 84, 104, 105, 115, 32, 105, 115, 32, 97, 32, 108, 111, 110, 103, 101, 114, 32, 109, 101, 115,
     115, 97, 103, 101, 32, 100, 101, 109, 111, 110, 115, 116, 114, 97, 116, 105, 110, 103, 32, 116,
     104, 101, 32, 112, 114, 111, 116, 111, 99, 111, 108, 45, 99, 111, 109, 112, 108, 105, 97, 110,
     116, 44, 32, 114, 97, 116, 101, 45, 52, 47, 53, 32, 76, 68, 80, 67, 32, 101, 114, 114,
     111, 114, 32, 99, 111, 114, 114, 101, 99, 116, 105, 111, 110, 46, 32, 84, 104, 105, 115, 32,
     115, 105, 103, 110, 97, 108, 32, 115, 105, 109, 117, 108, 97, 116, 101, 115, 32, 114, 101, 99,
     101, 112, 116, 105, 111, 110, 32, 116, 104, 114, 111, 117, 103, 104, 32, 97, 32, 112, 104, 121,
     115, 105, 99, 97, 108, 108, 121, 32, 97, 99, 99, 117, 114, 97, 116, 101, 32, 65, 87, 71,
     78, 32, 99, 104, 97, 110, 110, 101, 108, 32, 119, 104, 101, 114, 101, 32, 110, 111, 105, 115,
     101, 32, 105, 115, 32, 97, 100, 100, 101, 100, 32, 112, 111, 115, 116, 45, 109, 111, 100, 117,
     108, 97, 116, 105, 111, 110, 46, 32, 84, 104, 101, 32, 100, 101, 99, 111, 100, 101, 114, 32,
     119, 105, 108, 108, 32, 110, 111, 119, 32, 97, 116, 116, 101, 109, 112, 116, 32, 116, 111, 32,
     114, 101, 99, 111, 118, 101, 114, 32, 116, 104, 105, 115, 32, 101, 120, 97, 99, 116, 32, 109,
     101, 115, 115, 97, 103, 101, 46 >>

--------------------------------------------------------------------------
(* Helpers for sequences and unbounded integers *)

Pow2(e) == 2 ^ e

Zeros(len) == [i \in 1..len |-> 0]

\* concatenation of parts[lo..hi], by halving
RECURSIVE Flatten(_, _, _)
Flatten(parts, lo, hi) ==
    IF lo > hi THEN <<>>
    ELSE IF lo = hi THEN parts[lo]
    ELSE LET mid == (lo + hi) \div 2
         IN  Flatten(parts, lo, mid) \o Flatten(parts, mid + 1, hi)

\* a Python int >= 0 as the set of its one-bit positions
PyInt(v) == {i \in 0..30 : (v \div Pow2(i)) % 2 = 1}
ShiftLeft(x, s) == {i + s : i \in x}
BitOr(x, y) == x \cup y

\* math.ceil(a / b) for a >= 0, b > 0
Ceil(a, b) == (a + b - 1) \div b

Ok(bits) == [err |-> "", bits |-> bits]
Raise(e) == [err |-> e, bits |-> <<>>]

--------------------------------------------------------------------------
(* utils.py *)

int_to_bitstream_lsb_first(value, num_bits) ==
    IF num_bits <= 0 THEN Raise("ValueError: num_bits must be positive")
    ELSE IF \E i \in value : i >= num_bits
         THEN Raise("ValueError: value won't fit")
    ELSE Ok([j \in 1..num_bits |-> IF (j - 1) \in value THEN 1 ELSE 0])
int_to_bitstream_unchecked_width(value, num_bits) ==
    IF \E i \in value : i >= num_bits
    THEN Raise("ValueError: value won't fit")
    ELSE Ok([j \in 1..num_bits |-> IF (num_bits - j) \in value THEN 1 ELSE 0])
int_to_bitstream(value, num_bits) ==
    IF num_bits <= 0 THEN Raise("ValueError: num_bits must be positive")
    ELSE IF \E i \in value : i >= num_bits
         THEN Raise("ValueError: value won't fit")
    ELSE Ok([j \in 1..num_bits |-> IF (num_bits - j) \in value THEN 1 ELSE 0])

\* str.zfill(width): left-pad with "0" digits up to width, never truncate
zfill(digits, width) ==
    IF Len(digits) >= width THEN digits
    ELSE Zeros(width - Len(digits)) \o digits

hex_to_bitstream(hex_string, expected_bits) ==
    IF expected_bits % 8 # 0
    THEN Raise("ValueError: expected_bits must be a multiple of 8")
    ELSE LET padded == zfill(hex_string, expected_bits \div 4)
         IN  IF Len(padded) % 2 # 0
             THEN Raise("ValueError: fromhex")
             ELSE Ok([j \in 1..(4 * Len(padded)) |->
                        (padded[((j - 1) \div 4) + 1] \div Pow2(3 - ((j - 1) % 4))) % 2])

\* str.encode("utf-8") of one code point
Utf8Char(cp) ==
    IF cp < 128 THEN <<cp>>
    ELSE IF cp < 2048 THEN <<192 + (cp \div 64), 128 + (cp % 64)>>
    ELSE IF cp < 65536
         THEN <<224 + (cp \div 4096), 128 + ((cp \div 64) % 64), 128 + (cp % 64)>>
    ELSE <<240 + (cp \div 262144), 128 + ((cp \div 4096) % 64),
           128 + ((cp \div 64) % 64), 128 + (cp % 64)>>

Utf8Encode(text) == Flatten([i \in 1..Len(text) |-> Utf8Char(text[i])], 1, Len(text))

unpackbits_lsb_first(bytes) ==
    [j \in 1..(8 * Len(bytes)) |-> (bytes[((j - 1) \div 8) + 1] \div Pow2((j - 1) % 8)) % 2]
\* np.unpackbits: 8 bits per byte, most significant first
unpackbits(bytes) ==
    [j \in 1..(8 * Len(bytes)) |-> (bytes[((j - 1) \div 8) + 1] \div Pow2(7 - ((j - 1) % 8))) % 2]

string_to_bitstream(text) == unpackbits(Utf8Encode(text))

--------------------------------------------------------------------------
(* pipeline.py: create_ldpc_matrices *)

n_equations == (codeword_bits * dv) \div dc
block_size == n_equations \div dv

\* column permutations used by the construction: c -> (stride * c + offset) mod n,
\* with strides coprime to n
Strides == <<1, 3, 7, 9, 11, 13, 17, 19>>
Permute(draw, block, c) ==
    (Strides[((draw + 3 * block) % Len(Strides)) + 1] * c + draw * block) % codeword_bits

\* make_ldpc(n, dv, dc, systematic=True, seed): a regular parity-check matrix with
\* dv ones per column and dc ones per row, of n*dv/dc rows.  Block 0 has the dc
\* consecutive ones per row, every further block is block 0 with its columns
\* permuted, and the whole matrix has its columns reordered; the generator's
\* draw selects the permutations.
make_ldpc(draw) ==
    [r \in 1..n_equations |-> [c \in 1..codeword_bits |->
        IF Permute(draw, (r - 1) \div block_size, c - 1) \div dc = (r - 1) % block_size
        THEN 1 ELSE 0]]

\* the draws a generator seeded with `seed` can make: one when seeded, any when not
LdpcDraws(seed) ==
    IF seed = None THEN 0..MaxLdpcDraw ELSE {seed[1] % (MaxLdpcDraw + 1)}

Generator_parity_first(H, k) ==
    [i \in 1..k |-> [j \in 1..(k + Len(H)) |->
        (IF j > Len(H) THEN (IF i = j - Len(H) THEN 1 ELSE 0) ELSE H[j][i]) % 2]]
\* P = H[:, :k].T ; G = concatenate((I_k, P), axis=1) % 2
Generator(H, k) ==
    [i \in 1..k |-> [j \in 1..(k + Len(H)) |->
        (IF j <= k THEN (IF i = j THEN 1 ELSE 0) ELSE H[j - k][i]) % 2]]

create_ldpc_matrices(draw) ==
    LET H == make_ldpc(draw)
        G == Generator(H, message_bits)
    IN  IF Len(G) # message_bits \/ Len(G[1]) # codeword_bits
        THEN [err |-> "ValueError: Generator matrix construction failed", matrices |-> None]
        ELSE [err |-> "",
              matrices |-> Some([draw |-> draw, message_bits |-> message_bits,
                                 codeword_bits |-> codeword_bits])]

\* the matrices of every draw, evaluated once
Rows(M) == SubSeq([i \in 1..Len(M) |-> SubSeq(M[i], 1, Len(M[i]))], 1, Len(M))
ParityCheckOf == [draw \in 0..(MaxLdpcDraw + 1) |-> Rows(make_ldpc(draw))]
GeneratorOf == [draw \in 0..(MaxLdpcDraw + 1) |-> Rows(Generator(ParityCheckOf[draw], message_bits))]

\* LDPCMatrices.H and LDPCMatrices.G of a matrices record
MatH(m) == ParityCheckOf[m.draw]
MatG(m) == GeneratorOf[m.draw]

\* row vector times matrix, mod 2
VecMat(v, M, width) ==
    [j \in 1..width |-> Cardinality({i \in 1..Len(v) : v[i] = 1 /\ M[i][j] = 1}) % 2]

--------------------------------------------------------------------------
(* pipeline.py: build_full_bitstream *)

command_type_unshifted(frame_idx, total_frames) ==
    BitOr(PyInt(command_opcode),
          BitOr(PyInt(frame_idx), ShiftLeft(PyInt(total_frames), total_frames_shift)))
command_type(frame_idx, total_frames) ==
    BitOr(PyInt(command_opcode),
          BitOr(ShiftLeft(PyInt(frame_idx), current_frame_shift),
                ShiftLeft(PyInt(total_frames), total_frames_shift)))

\* payload_bits[start:end], right-padded with zeros to message_bits
message_chunk(payload_bits, frame_idx, k) ==
    LET start == frame_idx * k
        end == IF (frame_idx + 1) * k < Len(payload_bits)
               THEN (frame_idx + 1) * k ELSE Len(payload_bits)
        chunk == SubSeq(payload_bits, start + 1, end)
    IN  IF Len(chunk) < k THEN chunk \o Zeros(k - Len(chunk)) ELSE chunk

\* codeword = (message_chunk @ G % 2)
encode_chunk(chunk, m) == VecMat(chunk, MatG(m), m.codeword_bits)

build_frame(payload_bits, frame_idx, total_frames, m, sync_bits, target_id_bits) ==
    LET command_bits == int_to_bitstream(command_type(frame_idx, total_frames),
                                         command_type_symbols * 2)
        chunk == message_chunk(payload_bits, frame_idx, m.message_bits)
        codeword == encode_chunk(chunk, m)
        payload == SubSeq(codeword, 1, m.message_bits)
        ecc == SubSeq(codeword, m.message_bits + 1, Len(codeword))
    IN  IF command_bits.err # "" THEN command_bits
        ELSE Ok(sync_bits \o target_id_bits \o command_bits.bits \o payload \o ecc)

\* if total_frames > protocol.max_frames: raise
exceeds_protocol_off_by_one(total_frames) == total_frames > max_frames + 1
exceeds_protocol(total_frames) == total_frames > max_frames

frames_needed_floor(payload_bits, m) ==
    IF Len(payload_bits) # 0 THEN Len(payload_bits) \div m.message_bits ELSE 1
frames_needed(payload_bits, m) ==
    IF Len(payload_bits) # 0 THEN Ceil(Len(payload_bits), m.message_bits) ELSE 1

build_full_bitstream(payload_bits, m) ==
    LET total_frames == frames_needed(payload_bits, m)
        sync == hex_to_bitstream(sync_sequence_hex, sync_symbols * 2)
        target == hex_to_bitstream(target_id_hex, target_id_symbols * 2)
        Failed(e, built) == [err |-> e, full_stream |-> <<>>, total_frames |-> 0,
                             frames_built |-> built]
    IN  IF exceeds_protocol(total_frames)
        THEN Failed("ValueError: Message too long for protocol", 0)
        ELSE IF sync.err # "" THEN Failed(sync.err, 0)
        ELSE IF target.err # "" THEN Failed(target.err, 0)
        ELSE LET bad == {i \in 0..(total_frames - 1) :
                           int_to_bitstream(command_type(i, total_frames),
                                            command_type_symbols * 2).err # ""}
             IN  IF bad # {}
                 THEN LET first == CHOOSE i \in bad : \A j \in bad : i <= j
                      IN  Failed(int_to_bitstream(command_type(first, total_frames),
                                                  command_type_symbols * 2).err, first)
                 ELSE LET frames == [i \in 1..total_frames |->
                                       build_frame(payload_bits, i - 1, total_frames, m,
                                                   sync.bits, target.bits).bits]
                      IN  [err |-> "", full_stream |-> Flatten(frames, 1, total_frames),
                           total_frames |-> total_frames, frames_built |-> total_frames]

--------------------------------------------------------------------------
(* pipeline.py: generate_modulated_signal, the QPSK tables *)

\* qpsk_symbol_map: bit pair -> symbol
qpsk_symbol_map(pair) ==
    CASE pair = <<0, 0>> -> 0
      [] pair = <<0, 1>> -> 1
      [] pair = <<1, 1>> -> 2
      [] pair = <<1, 0>> -> 3

\* qpsk_phase_map = np.array([1, 0, 2, 3]) * pi/2 + pi/4, in units of pi/4
qpsk_phase_map == [s \in 1..4 |-> <<1, 0, 2, 3>>[s] * 2 + 1]

\* qpsk_phases = qpsk_phase_map[qpsk_symbols] over qpsk_bitstream.reshape(-1, 2)
qpsk_phases(qpsk_bitstream) ==
    [i \in 1..(Len(qpsk_bitstream) \div 2) |->
        qpsk_phase_map[qpsk_symbol_map(<<qpsk_bitstream[2 * i - 1], qpsk_bitstream[2 * i]>>) + 1]]

\* rng.normal(...) of a generator: the draw is a function of its seed and of how
\* many draws it has made
normal(generator) == (generator.seed + generator.pos) % (MaxNoiseDraw + 1)

--------------------------------------------------------------------------
(* pipeline.py: demodulate_and_decode, symbol decision *)

\* np.angle: the phase as a value in (-pi, pi]
angle(phase) == LET m == phase % 8 IN IF m > 4 THEN m - 8 ELSE m

Abs(x) == IF x < 0 THEN -x ELSE x

\* qpsk_reverse_bit_map: slicer index -> bit pair
qpsk_reverse_bit_map(symbol_index) ==
    CASE symbol_index = 0 -> <<0, 1>>
      [] symbol_index = 1 -> <<0, 0>>
      [] symbol_index = 2 -> <<1, 1>>
      [] symbol_index = 3 -> <<1, 0>>

\* symbol_index = argmin(abs(angle(exp(1j * (phase - qpsk_phase_map))))): the first
\* index of the least distance
slice_symbol(phase, phase_map) ==
    LET dist(k) == Abs(angle(phase - phase_map[k + 1]))
    IN  CHOOSE k \in 0..3 :
            /\ \A j \in 0..3 : dist(k) <= dist(j)
            /\ \A j \in 0..3 : j < k => dist(j) > dist(k)

slice_bits(phase, phase_map) == qpsk_reverse_bit_map(slice_symbol(phase, phase_map))

\* demodulated_bits of a sequence of received phases
slice_stream(received_phases, phase_map) ==
    [j \in 1..(2 * Len(received_phases)) |->
        slice_bits(received_phases[(j + 1) \div 2], phase_map)[2 - (j % 2)]]

--------------------------------------------------------------------------
(* The analog path between the two tables: zero-order hold, Butterworth       *)
(* smoothing, carrier, AWGN, down-mix, matched filter and the recovery loop.  *)
(* It is held at symbol rate: what it delivers to the slicer is a sequence    *)
(* of symbol phases.  Without effective noise every transmitted phase is      *)
(* delivered unchanged; a noise draw at the design SNR can leave the symbols  *)
(* alone, exchange pi/4 and 3pi/4, delay the symbols behind junk, lose the    *)
(* last symbols, or bury everything but one sync-length burst.                *)

NoiseEffects ==
    << [map |-> "same",   delay |-> 0,  lost |-> 0, burst_end |-> 0],
       [map |-> "mirror", delay |-> 0,  lost |-> 0, burst_end |-> 0],
       [map |-> "jam",    delay |-> 0,  lost |-> 0, burst_end |-> 0],
       [map |-> "mirror", delay |-> 16, lost |-> 0, burst_end |-> 0],
       [map |-> "mirror", delay |-> 0,  lost |-> 2, burst_end |-> 0],
       [map |-> "jam",    delay |-> 0,  lost |-> 0, burst_end |-> 1] >>

noise_effect(draw, snr_db) ==
    IF snr_db >= 100 THEN NoiseEffects[1]
    ELSE NoiseEffects[(draw % Len(NoiseEffects)) + 1]

\* the phase at which the slicer decides `pair`
phase_deciding(pair, phase_map) ==
    angle(phase_map[(CHOOSE k \in 0..3 : qpsk_reverse_bit_map(k) = pair) + 1])

received_phases(noisy_signal, snr_db, phase_map) ==
    LET tx == noisy_signal.clean
        e == noise_effect(noisy_signal.noise, snr_db)
        count == Len(tx)
        sync == hex_to_bitstream(sync_sequence_hex, sync_symbols * 2).bits
        burst == count - sync_symbols - e.burst_end
        body == [i \in 1..count |->
                   IF e.map = "same" THEN angle(tx[i])
                   ELSE IF e.map = "mirror"
                        THEN (IF tx[i] = 1 THEN 3 ELSE IF tx[i] = 3 THEN 1 ELSE angle(tx[i]))
                   ELSE IF i > burst /\ i <= burst + sync_symbols
                        THEN phase_deciding(<<sync[2 * (i - burst) - 1], sync[2 * (i - burst)]>>,
                                            phase_map)
                        ELSE phase_deciding(<<0, 0>>, phase_map)]
    IN  [i \in 1..e.delay |-> phase_deciding(<<0, 0>>, phase_map)]
            \o SubSeq(body, 1, count - e.lost)

--------------------------------------------------------------------------
(* pipeline.py: demodulate_and_decode, frame sync, decoding and recovery *)

\* ldpc_decode(H, noisy_codeword, snr_db): the k message bits recovered from a
\* received codeword; the hard decisions of its systematic part
ldpc_decode(H, noisy_codeword, snr_db) ==
    SubSeq(noisy_codeword, 1, Len(H[1]) - Len(H))

\* the sync search: for idx in range(max(limit, 0)) ... break at the first match
search_limit(stream_len, sync_len) ==
    LET limit == stream_len - sync_len IN IF limit > 0 THEN limit ELSE 0

matches_at(stream, pattern, idx) ==
    /\ idx + Len(pattern) <= Len(stream)
    /\ \A j \in 1..Len(pattern) : stream[idx + j] = pattern[j]

find_sync(stream, sync_bits) ==
    LET hits == {idx \in 0..(search_limit(Len(stream), Len(sync_bits)) - 1) :
                    matches_at(stream, sync_bits, idx)}
    IN  IF hits = {} THEN -1 ELSE CHOOSE idx \in hits : \A other \in hits : idx <= other

\* np.packbits: bytes of 8 bits, the last one zero-padded
packbits(bits) ==
    [b \in 1..Ceil(Len(bits), 8) |->
        LET bit(j) == IF 8 * (b - 1) + j <= Len(bits) THEN bits[8 * (b - 1) + j] ELSE 0
        IN  128 * bit(1) + 64 * bit(2) + 32 * bit(3) + 16 * bit(4)
              + 8 * bit(5) + 4 * bit(6) + 2 * bit(7) + bit(8)]

\* length of the well-formed UTF-8 sequence that starts at bytes[i], 0 when none does
utf8_len(bytes, i) ==
    LET b == bytes[i]
        In(j, lo, hi) == j <= Len(bytes) /\ bytes[j] >= lo /\ bytes[j] <= hi
        Cont(j) == In(j, 128, 191)
    IN  IF b < 128 THEN 1
        ELSE IF b >= 194 /\ b <= 223 /\ Cont(i + 1) THEN 2
        ELSE IF b = 224 /\ In(i + 1, 160, 191) /\ Cont(i + 2) THEN 3
        ELSE IF b >= 225 /\ b <= 239 /\ b # 237 /\ Cont(i + 1) /\ Cont(i + 2) THEN 3
        ELSE IF b = 237 /\ In(i + 1, 128, 159) /\ Cont(i + 2) THEN 3
        ELSE IF b = 240 /\ In(i + 1, 144, 191) /\ Cont(i + 2) /\ Cont(i + 3) THEN 4
        ELSE IF b >= 241 /\ b <= 243 /\ Cont(i + 1) /\ Cont(i + 2) /\ Cont(i + 3) THEN 4
        ELSE IF b = 244 /\ In(i + 1, 128, 143) /\ Cont(i + 2) /\ Cont(i + 3) THEN 4
        ELSE 0

utf8_code_point(bytes, i) ==
    LET len == utf8_len(bytes, i)
        c(j) == bytes[i + j] % 64
    IN  IF len = 1 THEN bytes[i]
        ELSE IF len = 2 THEN (bytes[i] % 32) * 64 + c(1)
        ELSE IF len = 3 THEN (bytes[i] % 16) * 4096 + c(1) * 64 + c(2)
        ELSE (bytes[i] % 8) * 262144 + c(1) * 4096 + c(2) * 64 + c(3)

IsCodePoint(x) == x >= 0

\* bytes.decode("utf-8", "ignore"): the code points of the well-formed sequences,
\* every other byte dropped
decode_utf8_ignore(bytes) ==
    SelectSeq([i \in 1..Len(bytes) |->
                 IF utf8_len(bytes, i) > 0 THEN utf8_code_point(bytes, i) ELSE -1],
              IsCodePoint)

\* str.rstrip("\x00")
rstrip_nul(text) ==
    LET keep == {i \in 1..Len(text) : text[i] # 0}
    IN  IF keep = {} THEN <<>>
        ELSE SubSeq(text, 1, CHOOSE i \in keep : \A j \in keep : j <= i)

\* the demodulated stream padded with zeros or cut to the transmitted length
fit_length(demodulated, target_len) ==
    IF Len(demodulated) < target_len
    THEN demodulated \o Zeros(target_len - Len(demodulated))
    ELSE SubSeq(demodulated, 1, target_len)

\* the frame loop: the decoded messages of the frames of aligned_bitstream
decode_frames(aligned_bitstream, m, snr_db) ==
    LET num_frames == Len(aligned_bitstream) \div frame_bits
        payload_start == (sync_symbols + target_id_symbols + command_type_symbols) * 2
        payload_end == payload_start + m.codeword_bits
        decoded == [f \in 1..num_frames |->
                      LET frame == SubSeq(aligned_bitstream, (f - 1) * frame_bits + 1,
                                          f * frame_bits)
                      IN  IF Len(frame) < payload_end THEN <<>>
                          ELSE ldpc_decode(MatH(m),
                                           SubSeq(frame, payload_start + 1, payload_end),
                                           snr_db)]
    IN  Flatten(decoded, 1, num_frames)

Differences(a, b) == Cardinality({i \in 1..Len(a) : a[i] # b[i]})

NoDemodulation(e, sync_at) == [err |-> e, sync_location |-> sync_at, result |-> None]

\* up to the end of the frame loop: slicing, pre-FEC count, frame sync, decoding
receive(enc, m, snr_db) ==
    LET received == received_phases(enc.noisy_signal, snr_db, enc.qpsk_phase_map)
        demodulated_bitstream ==
            fit_length(slice_stream(received, enc.qpsk_phase_map), Len(enc.qpsk_bitstream))
        sync == hex_to_bitstream(sync_sequence_hex, sync_symbols * 2)
        location == find_sync(demodulated_bitstream, sync.bits)
        aligned_bitstream == SubSeq(demodulated_bitstream, location + 1,
                                    Len(demodulated_bitstream))
    IN  [err |-> IF Len(enc.qpsk_bitstream) = 0 THEN "ZeroDivisionError"
                 ELSE IF sync.err # "" THEN sync.err
                 ELSE IF location = -1 THEN "RuntimeError: Frame sync sequence not found"
                 ELSE "",
         sync_location |-> location,
         demodulated_bitstream |-> demodulated_bitstream,
         pre_fec_errors |-> Differences(enc.qpsk_bitstream, demodulated_bitstream),
         decoded_bitstream |->
             IF location = -1 THEN <<>> ELSE decode_frames(aligned_bitstream, m, snr_db)]

\* whether payload_bits != trimmed_decoded is reached with arrays of different lengths
compares_shapes(enc, received) ==
    /\ received.err = ""
    /\ Len(received.decoded_bitstream) < Len(enc.payload_bits)

\* from the truncation to the payload length on: post-FEC count and the message.
\* shape_raises: whether comparing arrays of different lengths raises (it does in
\* current numpy, and yields the scalar True in earlier versions)
recover(enc, received, shape_raises) ==
    LET decoded_bitstream == received.decoded_bitstream
        trimmed_decoded ==
            IF Len(decoded_bitstream) > Len(enc.payload_bits)
            THEN SubSeq(decoded_bitstream, 1, Len(enc.payload_bits))
            ELSE decoded_bitstream
        same_shape == ~compares_shapes(enc, received)
        post_fec_errors ==
            IF same_shape THEN Differences(enc.payload_bits, trimmed_decoded) ELSE 1
        recovered_message == rstrip_nul(decode_utf8_ignore(packbits(trimmed_decoded)))
    IN  IF received.err # ""
        THEN NoDemodulation(received.err, -1)
        ELSE IF ~same_shape /\ shape_raises
             THEN NoDemodulation("ValueError: operands could not be broadcast together",
                                 received.sync_location)
        ELSE IF Len(enc.payload_bits) = 0
             THEN NoDemodulation("ZeroDivisionError", received.sync_location)
        ELSE [err |-> "", sync_location |-> received.sync_location,
              result |-> Some([demodulated_bitstream |-> received.demodulated_bitstream,
                               decoded_bitstream |-> trimmed_decoded,
                               recovered_message |-> recovered_message,
                               pre_fec_errors |-> received.pre_fec_errors,
                               pre_fec_ber |-> <<received.pre_fec_errors,
                                                 Len(enc.qpsk_bitstream)>>,
                               post_fec_errors |-> post_fec_errors,
                               post_fec_ber |-> <<post_fec_errors, Len(enc.payload_bits)>>])]

demodulate_and_decode(enc, m, snr_db, shape_raises) ==
    recover(enc, receive(enc, m, snr_db), shape_raises)

--------------------------------------------------------------------------
(* pipeline.py: generate_modulated_signal *)

\* up to the composition of the clean signal: payload, frames, symbol phases
modulate(text, m) ==
    LET payload_bits == string_to_bitstream(text)
        built == build_full_bitstream(payload_bits, m)
    IN  [err |-> built.err,
         frames_built |-> built.frames_built,
         payload_bits |-> SubSeq(payload_bits, 1, Len(payload_bits)),
         qpsk_bitstream |-> built.full_stream,
         total_frames |-> built.total_frames,
         clean_signal |-> SubSeq(qpsk_phases(built.full_stream), 1,
                                 Len(built.full_stream) \div 2)]

\* the AWGN channel and the result record
add_noise(modulated, generator) ==
    IF modulated.err # ""
    THEN [err |-> modulated.err, frames_built |-> modulated.frames_built, result |-> None]
    ELSE [err |-> "", frames_built |-> modulated.frames_built,
          result |-> Some([noisy_signal |-> [clean |-> modulated.clean_signal,
                                             noise |-> normal(generator)],
                           clean_signal |-> modulated.clean_signal,
                           qpsk_bitstream |-> modulated.qpsk_bitstream,
                           payload_bits |-> modulated.payload_bits,
                           qpsk_phase_map |-> qpsk_phase_map,
                           total_frames |-> modulated.total_frames])]

generate_modulated_signal(text, m, generator) == add_noise(modulate(text, m), generator)

--------------------------------------------------------------------------
(* The arguments of run_simulation *)

bytes_per_frame == message_bits \div 8

TextLens ==
    (0..MaxShortLen) \cup {bytes_per_frame, bytes_per_frame + 1,
                           bytes_per_frame * max_frames, bytes_per_frame * max_frames + 1}

\* a text of len characters: plaintext_source, repeated as often as needed
CyclicText(len) ==
    [i \in 1..len |-> plaintext_source[((i - 1) % Len(plaintext_source)) + 1]]

Plaintexts == {None} \cup {Some(CyclicText(len)) : len \in TextLens}

SnrValues == {default_snr_db, 100}

SimulationConfigs ==
    [snr_db : SnrValues, rng_seed : {None} \cup {Some(seed) : seed \in 0..MaxSeed}]

LDPCConfigs == [seed : {None, Some(default_ldpc_seed)}]

Generators == {None, Some([seed |-> 0, pos |-> 0])}

--------------------------------------------------------------------------
(* run_simulation *)

Init ==
    /\ pc = "start"
    /\ plaintext \in Plaintexts
    /\ sim_config \in SimulationConfigs
    /\ ldpc_config \in LDPCConfigs
    /\ rng \in Generators
    /\ matrices = None
    /\ encoding = None
    /\ demodulation = None
    /\ error = ""
    /\ frames_built = 0
    /\ sync_location = -1
    /\ numpy_raises = None
    /\ run = 1
    /\ prev = None
    /\ call = None
    /\ ret = None
    /\ recovery = None

\* matrices = create_ldpc_matrices(protocol, ldpc_config)
CreateMatrices ==
    /\ pc = "start"
    /\ \E draw \in LdpcDraws(ldpc_config.seed) :
          LET made == create_ldpc_matrices(draw)
          IN  /\ matrices' = made.matrices
              /\ error' = made.err
              /\ pc' = IF made.err = "" THEN "matrices" ELSE "failed"
    /\ UNCHANGED <<plaintext, sim_config, ldpc_config, rng, encoding, demodulation,
                   frames_built, sync_location, numpy_raises, run, prev,
                   call, ret, recovery>>

DefaultRngSeeds_unseeded(rng_seed) == 0..MaxNoiseDraw
\* the seeds np.random.default_rng(rng_seed) can start from: rng_seed, or any when
\* it is None (operating-system entropy)
DefaultRngSeeds(rng_seed) == IF rng_seed = None THEN 0..MaxNoiseDraw ELSE {rng_seed[1]}

\* encoding = generate_modulated_signal(sim_config, protocol, matrices, plaintext, rng)
GenerateModulatedSignal ==
    /\ pc = "matrices"
    /\ \E modulated \in {modulate(IF plaintext = None THEN plaintext_source ELSE plaintext[1],
                                  matrices[1])} :
       \E seed \in (IF rng = None THEN DefaultRngSeeds(sim_config.rng_seed) ELSE {0}) :
          LET generator == IF rng # None THEN rng[1] ELSE [seed |-> seed, pos |-> 0]
              made == add_noise(modulated, generator)
          IN  /\ encoding' = made.result
              /\ error' = made.err
              /\ frames_built' = made.frames_built
              /\ rng' = IF made.err = "" /\ rng # None
                        THEN Some([rng[1] EXCEPT !.pos = @ + 1]) ELSE rng
              /\ pc' = IF made.err = "" THEN "encoded" ELSE "failed"
    /\ UNCHANGED <<plaintext, sim_config, ldpc_config, matrices, demodulation,
                   sync_location, numpy_raises, run, prev, call, ret, recovery>>

\* demodulation = demodulate_and_decode(encoding, matrices, sim_config, protocol)
DemodulateAndDecode ==
    /\ pc = "encoded"
    /\ \E received \in {receive(encoding[1], matrices[1], sim_config.snr_db)} :
       \E shape_raises \in (IF numpy_raises = None THEN BOOLEAN ELSE {numpy_raises[1]}) :
          LET made == recover(encoding[1], received, shape_raises)
          IN  /\ numpy_raises' = IF compares_shapes(encoding[1], received)
                                 THEN Some(shape_raises) ELSE numpy_raises
              /\ demodulation' = made.result
              /\ error' = made.err
              /\ sync_location' = made.sync_location
              /\ pc' = IF made.err = "" THEN "done" ELSE "failed"
    /\ UNCHANGED <<plaintext, sim_config, ldpc_config, rng, matrices, encoding,
                   frames_built, run, prev, call, ret, recovery>>

\* what a run leaves behind for comparison
Outputs ==
    [noisy_signal |-> IF encoding = None THEN None ELSE Some(encoding[1].noisy_signal),
     decoded_bitstream |->
         IF demodulation = None THEN None ELSE Some(demodulation[1].decoded_bitstream),
     error |-> error]

\* run_simulation is called again with the same arguments
RunAgain ==
    /\ pc \in {"done", "failed"}
    /\ run = 1
    /\ run' = 2
    /\ prev' = Some(Outputs)
    /\ pc' = "start"
    /\ matrices' = None
    /\ encoding' = None
    /\ demodulation' = None
    /\ error' = ""
    /\ frames_built' = 0
    /\ sync_location' = -1
    /\ UNCHANGED <<plaintext, sim_config, ldpc_config, rng, numpy_raises,
                   call, ret, recovery>>

Next ==
    \/ CreateMatrices
    \/ GenerateModulatedSignal
    \/ DemodulateAndDecode
    \/ RunAgain

Spec == Init /\ [][Next]_vars

--------------------------------------------------------------------------
(* Functions and code sections called on their own, with arguments drawn from *)
(* bounded sets: the bit primitives of utils.py, the message recovery, the    *)
(* matched-filter taps and the sizing of the generated signal                 *)

\* widths 1..MaxWidth (and 0, -1) and values up to 2^MaxWidth + 1 are tried
MaxWidth == 4
\* hexadecimal strings of up to MaxHexLen digits
MaxHexLen == 3
\* texts of up to MaxTextLen characters
MaxTextLen == 2
\* decoded byte strings of up to MaxBytes bytes
MaxBytes == 3
\* frame counts 1..MaxShapeFrames of a sized signal
MaxShapeFrames == 3

\* the arguments run_simulation leaves untouched while a function is called alone
PipelineIdle ==
    /\ pc = "idle"
    /\ plaintext = None
    /\ sim_config = None
    /\ ldpc_config = None
    /\ rng = None
    /\ matrices = None
    /\ encoding = None
    /\ demodulation = None
    /\ error = ""
    /\ frames_built = 0
    /\ sync_location = -1
    /\ numpy_raises = None
    /\ run = 0
    /\ prev = None

\* all sequences over alphabet of length 0..max_len
SeqsUpTo(alphabet, max_len) == UNION {[1..len -> alphabet] : len \in 0..max_len}

Widths == (-1..MaxWidth) \cup {12, 32}
Values == (0..(Pow2(MaxWidth) + 1)) \cup {171}
HexDigits == {0, 5, 10, 15}
HexWidths == {4 * q : q \in -1..(MaxHexLen + 1)}
\* NUL, "A", e-acute, the euro sign, an emoji
CodePoints == {0, 65, 233, 8364, 128512}
\* NUL, "A", a continuation byte, the two bytes of e-acute, a byte no sequence has
Bytes == {0, 65, 128, 195, 169, 255}
SampleRates == {8000, 16000, 48000}
SymbolRates == {7, 16, 256}

Calls ==
         {[fn |-> "int_to_bitstream", args |-> <<v, n>>] : v \in Values, n \in Widths}
    \cup {[fn |-> "hex_to_bitstream", args |-> <<h, n>>] :
             h \in SeqsUpTo(HexDigits, MaxHexLen), n \in HexWidths}
    \cup {[fn |-> "string_to_bitstream", args |-> <<t>>] :
             t \in SeqsUpTo(CodePoints, MaxTextLen)}
    \cup {[fn |-> "recover_message", args |-> <<b>>] : b \in SeqsUpTo(Bytes, MaxBytes)}
    \cup {[fn |-> "rrc_filter_taps", args |-> <<>>]}
    \cup {[fn |-> "signal_size", args |-> <<fs, rs, f>>] :
             fs \in SampleRates, rs \in SymbolRates, f \in 1..MaxShapeFrames}

\* recovered_bytes.tobytes().decode("utf-8", "ignore").rstrip("\x00")
recover_message(recovered_bytes) == rstrip_nul(decode_utf8_ignore(recovered_bytes))

\* num_taps = 101; np.arange(-num_taps // 2, num_taps // 2 + 1): the tap indices,
\* before the division by samples_per_symbol
num_taps == 101
arange(start, stop) == [i \in 1..(IF stop > start THEN stop - start ELSE 0) |-> start + i - 1]
rrc_tap_indices(taps) == arange((-taps) \div 2, taps \div 2 + 1)

\* round(a / b) of Python for a >= 0, b > 0: to the nearest integer, ties to even
round_div(a, b) ==
    LET q == a \div b
        r == a % b
    IN  IF 2 * r < b THEN q
        ELSE IF 2 * r > b THEN q + 1
        ELSE IF q % 2 = 0 THEN q ELSE q + 1

\* samples_per_symbol, duration_seconds and num_samples of generate_modulated_signal,
\* and the length of phase_qpsk_raw once padded or cut to num_samples.  The
\* duration is held as the fraction num / den; the rates tried are such that the
\* floating-point products are exact or far from an integer.
signal_size(sample_rate, qpsk_symbol_rate, total_frames) ==
    LET samples_per_symbol ==
            IF round_div(sample_rate, qpsk_symbol_rate) > 1
            THEN round_div(sample_rate, qpsk_symbol_rate) ELSE 1
        symbols == total_frames * total_symbols
        duration_seconds ==
            IF symbols > qpsk_symbol_rate
            THEN [num |-> symbols, den |-> qpsk_symbol_rate]
            ELSE [num |-> 1, den |-> 1]
        num_samples == (duration_seconds.num * sample_rate) \div duration_seconds.den
        raw_len == symbols * samples_per_symbol
        phase_qpsk_raw == IF raw_len < num_samples
                          THEN raw_len + (num_samples - raw_len) ELSE num_samples
    IN  [samples_per_symbol |-> samples_per_symbol,
         duration_seconds |-> duration_seconds,
         num_samples |-> num_samples,
         phase_qpsk_raw |-> phase_qpsk_raw]

UnitsInit ==
    /\ PipelineIdle
    /\ recovery = None
    /\ call \in {Some(c) : c \in Calls}
    /\ ret = None

Returns(fn, result) ==
    /\ call # None
    /\ call[1].fn = fn
    /\ ret = None
    /\ ret' = Some(result)
    /\ UNCHANGED <<pc, plaintext, sim_config, ldpc_config, rng, matrices, encoding,
                   demodulation, error, frames_built, sync_location, numpy_raises,
                   run, prev, call, recovery>>

IntToBitstream ==
    /\ call # None /\ call[1].fn = "int_to_bitstream"
    /\ Returns("int_to_bitstream", int_to_bitstream(PyInt(call[1].args[1]), call[1].args[2]))

HexToBitstream ==
    /\ call # None /\ call[1].fn = "hex_to_bitstream"
    /\ Returns("hex_to_bitstream", hex_to_bitstream(call[1].args[1], call[1].args[2]))

StringToBitstream ==
    /\ call # None /\ call[1].fn = "string_to_bitstream"
    /\ Returns("string_to_bitstream", Ok(string_to_bitstream(call[1].args[1])))

RecoverMessage ==
    /\ call # None /\ call[1].fn = "recover_message"
    /\ Returns("recover_message",
               [err |-> "", recovered_message |-> recover_message(call[1].args[1])])

BuildMatchedFilter ==
    /\ call # None /\ call[1].fn = "rrc_filter_taps"
    /\ Returns("rrc_filter_taps", [err |-> "", t_rrc |-> rrc_tap_indices(num_taps)])

SizeSignal ==
    /\ call # None /\ call[1].fn = "signal_size"
    /\ Returns("signal_size",
               signal_size(call[1].args[1], call[1].args[2], call[1].args[3]))

UnitsNext ==
    \/ IntToBitstream
    \/ HexToBitstream
    \/ StringToBitstream
    \/ RecoverMessage
    \/ BuildMatchedFilter
    \/ SizeSignal

SpecUnits == UnitsInit /\ [][UnitsNext]_vars

--------------------------------------------------------------------------
(* pipeline.py: _timing_and_carrier_recovery_impl                             *)
(*                                                                            *)
(* The sample index i_in and the timing integrator are held in millionths of  *)
(* a sample, which makes the two timing gains integers.  The signal path is   *)
(* held by its support: a sample, an interpolated value, a phase or an NCO    *)
(* quantity is 0 when it is exactly zero and 1 when it may be anything else.  *)
(* A timing error whose factors are not zero may be any of TimingErrors.      *)
(* Of the three output lists only the last element is ever read; the model    *)
(* keeps that element (None while the list is empty).                         *)

\* the longest baseband signal tried, in samples
MaxSignalLen == 410

\* millionths of a sample per sample
Micro == 1000000
\* kp_timing = 0.0001 and ki_timing = 0.000001, in millionths of a sample
kp_timing == 100
ki_timing == 1

SignalLens == {0, 3, 8, MaxSignalLen}
SamplesPerSymbol == {2, 3}
\* an all-zero baseband, one with no zero sample, one silent in its first half
Basebands(len) ==
    { [i \in 1..len |-> 0],
      [i \in 1..len |-> 1],
      [i \in 1..len |-> IF 2 * i > len THEN 1 ELSE 0] }

\* the timing errors a non-zero signal can produce: none, and the two that charge
\* or discharge the timing integrator by a whole symbol period
TimingErrors(samples_per_symbol) ==
    {0, samples_per_symbol * (Micro \div ki_timing), -samples_per_symbol * (Micro \div ki_timing)}

\* support of a sum or difference, and of a product
Plus(a, b) == IF a = 0 /\ b = 0 THEN 0 ELSE 1
Times(a, b) == IF a = 0 \/ b = 0 THEN 0 ELSE 1

\* baseband_signal[idx] + frac * (baseband_signal[idx + 1] - baseband_signal[idx]),
\* idx counted from 0 as in the code
interpolate(baseband_signal, idx, frac) ==
    Plus(baseband_signal[idx + 1],
         Times(IF frac = 0 THEN 0 ELSE 1,
               Plus(baseband_signal[idx + 2], baseband_signal[idx + 1])))

\* np.exp(-1j * nco_phase): never zero
nco_output(nco_phase) == 1

\* real(half) * (real(mid) - real(prev)) + imag(half) * (imag(mid) - imag(prev))
gardner_error(corrected_half, corrected_mid, prev_mid) ==
    Times(corrected_half, Plus(corrected_mid, prev_mid))

arctan2_undefined_at_origin(q_corrected, i_corrected) == 1
\* np.arctan2(q_corrected, i_corrected), which is 0 at the origin
arctan2(q_corrected, i_corrected) == Plus(q_corrected, i_corrected)

\* lines 288-300: the locals before the loop
recovery_locals(baseband_signal, samples_per_symbol) ==
    [pc |-> "loop",
     baseband_signal |-> baseband_signal,
     samples_per_symbol |-> samples_per_symbol,
     nco_phase |-> 0,
     nco_freq_rad |-> 0,
     integrator_carrier |-> 0,
     timing_error |-> 0,
     integrator_timing |-> 0,
     out_symbols |-> None,
     out_nco_freq |-> None,
     out_timing_error |-> None,
     i_in |-> samples_per_symbol * Micro]

LoopInit ==
    /\ PipelineIdle
    /\ call = None
    /\ ret = None
    /\ recovery \in {Some(recovery_locals(b, sps)) :
                        b \in UNION {Basebands(len) : len \in SignalLens},
                        sps \in SamplesPerSymbol}

LoopUnchanged ==
    UNCHANGED <<pc, plaintext, sim_config, ldpc_config, rng, matrices, encoding,
                demodulation, error, frames_built, sync_location, numpy_raises,
                run, prev, call, ret>>

\* while i_in < signal_len - samples_per_symbol - 1
loop_condition(r) ==
    r.i_in < (Len(r.baseband_signal) - r.samples_per_symbol - 1) * Micro

\* idx = int(np.floor(i_in)); half_idx = int(np.floor(i_in - samples_per_symbol / 2))
sample_idx(r) == r.i_in \div Micro
half_sample_idx(r) == (r.i_in - r.samples_per_symbol * (Micro \div 2)) \div Micro

\* if idx < 1 or idx + 1 >= signal_len: break, for either index
breaks(r) ==
    \/ sample_idx(r) < 1
    \/ sample_idx(r) + 1 >= Len(r.baseband_signal)
    \/ half_sample_idx(r) < 1
    \/ half_sample_idx(r) + 1 >= Len(r.baseband_signal)

\* the loop condition is false: return
LeaveLoop ==
    /\ recovery # None
    /\ recovery[1].pc = "loop"
    /\ ~loop_condition(recovery[1])
    /\ recovery' = Some([recovery[1] EXCEPT !.pc = "returned"])
    /\ LoopUnchanged

\* one of the two index guards breaks out of the loop: return
BreakLoop ==
    /\ recovery # None
    /\ recovery[1].pc = "loop"
    /\ loop_condition(recovery[1])
    /\ breaks(recovery[1])
    /\ recovery' = Some([recovery[1] EXCEPT !.pc = "returned"])
    /\ LoopUnchanged

\* one pass through the loop body, lines 303-339
Iterate ==
    /\ recovery # None
    /\ recovery[1].pc = "loop"
    /\ loop_condition(recovery[1])
    /\ ~breaks(recovery[1])
    /\ LET r == recovery[1]
           mid_interp == interpolate(r.baseband_signal, sample_idx(r), r.i_in % Micro)
           half_interp == interpolate(r.baseband_signal, half_sample_idx(r),
                                      (r.i_in - r.samples_per_symbol * (Micro \div 2)) % Micro)
           corrected_mid == Times(mid_interp, nco_output(r.nco_phase))
           corrected_half == Times(half_interp, nco_output(r.nco_phase))
           errors == IF r.out_symbols = None THEN {r.timing_error}
                     ELSE IF gardner_error(corrected_half, corrected_mid, r.out_symbols[1]) = 0
                          THEN {0}
                     ELSE TimingErrors(r.samples_per_symbol)
       IN  \E timing_error \in errors :
              LET integrator_timing == r.integrator_timing + ki_timing * timing_error
                  phase_error == arctan2(corrected_mid, corrected_mid)
                  integrator_carrier == Plus(r.integrator_carrier, phase_error)
                  nco_freq_rad == Plus(r.nco_freq_rad, Plus(phase_error, integrator_carrier))
              IN  recovery' = Some([r EXCEPT
                      !.timing_error = timing_error,
                      !.integrator_timing = integrator_timing,
                      !.i_in = r.i_in + r.samples_per_symbol * Micro
                                  - (kp_timing * timing_error + integrator_timing),
                      !.integrator_carrier = integrator_carrier,
                      !.nco_freq_rad = nco_freq_rad,
                      !.nco_phase = Plus(r.nco_phase, nco_freq_rad),
                      !.out_symbols = Some(corrected_mid),
                      !.out_nco_freq = Some(nco_freq_rad),
                      !.out_timing_error = Some(timing_error)])
    /\ LoopUnchanged

LoopNext ==
    \/ Iterate
    \/ BreakLoop
    \/ LeaveLoop

SpecLoop == LoopInit /\ [][LoopNext]_vars

\* the interpreter keeps running the loop while it can
SpecLoopFair == SpecLoop /\ WF_vars(LoopNext)

--------------------------------------------------------------------------
(* Properties of the encoder: symbol tables, frames, codewords *)

\* C1: for each of the four bit pairs, the phase the transmit tables give it is
\* sliced back to the same bit pair; checked on every symbol of every encoded stream
C1_RoundTrip ==
    pc = "encoded" =>
        LET enc == encoding[1]
        IN  \A i \in 1..Len(enc.clean_signal) :
                slice_bits(angle(enc.clean_signal[i]), enc.qpsk_phase_map)
                    = <<enc.qpsk_bitstream[2 * i - 1], enc.qpsk_bitstream[2 * i]>>

\* C2: a run with the default plaintext and default seeds over the ideal channel
\* (snr_db >= 100) ends with a result whose post-FEC error count is zero and whose
\* recovered message is the plaintext
C2_NoiseFreeLink ==
    ( /\ pc \in {"done", "failed"}
      /\ plaintext = None
      /\ sim_config.snr_db >= 100
      /\ sim_config.rng_seed = None
      /\ ldpc_config.seed = Some(default_ldpc_seed)
      /\ rng = None )
    => /\ pc = "done"
       /\ demodulation[1].post_fec_errors = 0
       /\ demodulation[1].recovered_message = plaintext_source

\* C3: in every frame i of an encoded stream, bits [0,32) are the sync pattern
\* A5A5A5A5, bits [32,64) the target id DEADBEEF, and bits [64,96) the big-endian
\* word opcode | i << 16 | total_frames << 24, i.e. total_frames in its high byte,
\* i in the next byte and the opcode in the low sixteen bits
C3_FrameHeader ==
    pc = "encoded" =>
        LET enc == encoding[1]
            SyncPattern == <<1,0,1,0, 0,1,0,1, 1,0,1,0, 0,1,0,1,
                             1,0,1,0, 0,1,0,1, 1,0,1,0, 0,1,0,1>>
            TargetPattern == <<1,1,0,1, 1,1,1,0, 1,0,1,0, 1,1,0,1,
                               1,0,1,1, 1,1,1,0, 1,1,1,0, 1,1,1,1>>
        IN  \A i \in 0..(enc.total_frames - 1) :
                LET at(j) == enc.qpsk_bitstream[i * frame_bits + j + 1]
                IN  /\ \A j \in 0..31 : at(j) = SyncPattern[j + 1]
                    /\ \A j \in 0..31 : at(32 + j) = TargetPattern[j + 1]
                    /\ \A j \in 0..15 :
                          at(64 + j) = ((enc.total_frames * 256 + i) \div Pow2(15 - j)) % 2
                    /\ \A j \in 0..15 :
                          at(80 + j) = (command_opcode \div Pow2(15 - j)) % 2

\* a stream of several frames has been encoded
C3_Witness == pc = "encoded" /\ encoding[1].total_frames > 1

\* C4: for an accepted payload of n bits, total_frames is the least F with
\* F * k >= n, and 1 when n = 0; the stream is total_frames * frame_bits bits long
C4_FrameCount ==
    pc = "encoded" =>
        LET enc == encoding[1]
            n == Len(enc.payload_bits)
            F == enc.total_frames
        IN  /\ n = 0 => F = 1
            /\ n > 0 => F * message_bits >= n /\ (F - 1) * message_bits < n
            /\ Len(enc.qpsk_bitstream) = F * frame_bits

\* a payload that does not fill its last frame, of more than one frame
C4_Witness ==
    /\ pc = "encoded"
    /\ Len(encoding[1].payload_bits) > message_bits
    /\ Len(encoding[1].payload_bits) % message_bits # 0

\* C5: in every frame, bits [96,224) are the frame's zero-padded message chunk, and
\* bits [96,256) are that chunk times G mod 2: the chunk followed by its parities
\* against the first k columns of H
C5_SystematicCodeword ==
    pc = "encoded" =>
        LET enc == encoding[1]
            H == MatH(matrices[1])
            n == Len(enc.payload_bits)
        IN  \A i \in 0..(enc.total_frames - 1) :
                LET chunk(j) == IF i * message_bits + j <= n
                                THEN enc.payload_bits[i * message_bits + j] ELSE 0
                    at(j) == enc.qpsk_bitstream[i * frame_bits + j + 1]
                IN  /\ \A j \in 1..message_bits : at(95 + j) = chunk(j)
                    /\ \A r \in 1..ecc_bits :
                          at(95 + message_bits + r)
                              = Cardinality({j \in 1..message_bits :
                                                chunk(j) = 1 /\ H[r][j] = 1}) % 2

\* a padded last chunk that carries a one bit has been encoded
C5_Witness ==
    /\ pc = "encoded"
    /\ LET enc == encoding[1]
           n == Len(enc.payload_bits)
       IN  /\ n % message_bits # 0
           /\ \E j \in ((enc.total_frames - 1) * message_bits + 1)..n :
                 enc.payload_bits[j] = 1

\* C6: every row of the generator matrix is orthogonal to every row of the
\* parity-check matrix: G * H^T = 0 mod 2
C6_GeneratorOrthogonal ==
    pc = "matrices" =>
        LET G == MatG(matrices[1])
            H == MatH(matrices[1])
        IN  \A i \in 1..Len(G) : \A r \in 1..Len(H) :
                Cardinality({j \in 1..Len(H[r]) : G[i][j] = 1 /\ H[r][j] = 1}) % 2 = 0

\* C7: when the payload needs more than max_frames frames, the encoder fails with
\* the protocol overflow error, has built no frame and returns no bit stream; a
\* run that has a bit stream needed at most max_frames
C7_Overflow ==
    /\ pc \in {"encoded", "done"} => encoding # None
    /\ encoding # None => Len(encoding[1].payload_bits) <= max_frames * message_bits
    /\ (pc = "failed" /\ matrices # None /\ encoding = None) =>
          LET text == IF plaintext = None THEN plaintext_source ELSE plaintext[1]
              n == 8 * Len(Utf8Encode(text))
          IN  n > max_frames * message_bits =>
                 /\ error = "ValueError: Message too long for protocol"
                 /\ frames_built = 0

\* the encoder has refused a payload of more than max_frames frames
C7_Witness ==
    /\ pc = "failed"
    /\ encoding = None
    /\ error = "ValueError: Message too long for protocol"
    /\ Len(plaintext[1]) * 8 > max_frames * message_bits

--------------------------------------------------------------------------
(* Properties of the receiver and of whole runs *)

\* C8: with P the set of positions p in [0, L - 32] at which the demodulated
\* stream reads the sync pattern: if P is not empty the sync position is min(P),
\* and if P is empty the run fails with the frame-sync error
C8_FrameSync ==
    (pc \in {"done", "failed"} /\ encoding # None) =>
        LET enc == encoding[1]
            stream == fit_length(slice_stream(received_phases(enc.noisy_signal,
                                                              sim_config.snr_db,
                                                              enc.qpsk_phase_map),
                                              enc.qpsk_phase_map),
                                 Len(enc.qpsk_bitstream))
            SyncPattern == <<1,0,1,0, 0,1,0,1, 1,0,1,0, 0,1,0,1,
                             1,0,1,0, 0,1,0,1, 1,0,1,0, 0,1,0,1>>
            P == {p \in 0..(Len(stream) - 32) :
                     \A j \in 1..32 : stream[p + j] = SyncPattern[j]}
        IN  /\ P # {} => /\ sync_location \in P
                         /\ \A p \in P : sync_location <= p
                         /\ error # "RuntimeError: Frame sync sequence not found"
            /\ P = {} => /\ pc = "failed"
                         /\ error = "RuntimeError: Frame sync sequence not found"

\* C9: a run on the empty plaintext ends with a result: one frame was sent and
\* the recovered message is the empty text
C9_EmptyPayload ==
    (pc \in {"done", "failed"} /\ plaintext = Some(<<>>)) =>
        /\ pc = "done"
        /\ encoding[1].total_frames = 1
        /\ demodulation[1].recovered_message = <<>>

\* C10 as stated: a second run with the same configs, the LDPC seed set and no
\* generator handed in, leaves the same noisy signal and decoded bit stream as
\* the first, also when rng_seed is unset
C10_Determinism ==
    ( /\ run = 2
      /\ pc \in {"done", "failed"}
      /\ ldpc_config.seed # None
      /\ rng = None )
    => /\ Outputs.noisy_signal = prev[1].noisy_signal
       /\ Outputs.decoded_bitstream = prev[1].decoded_bitstream

\* C10 amended: when rng_seed and the LDPC seed are both set and no generator is
\* handed in, a second run with the same configs leaves the same noisy signal and
\* decoded bit stream, and the same error if any, as the first
C10_SeededDeterminism ==
    ( /\ run = 2
      /\ pc \in {"done", "failed"}
      /\ sim_config.rng_seed # None
      /\ ldpc_config.seed # None
      /\ rng = None )
    => /\ Outputs.noisy_signal = prev[1].noisy_signal
       /\ Outputs.decoded_bitstream = prev[1].decoded_bitstream
       /\ Outputs.error = prev[1].error

\* two seeded runs have both returned a result
C10_Witness ==
    /\ run = 2
    /\ pc = "done"
    /\ sim_config.rng_seed # None
    /\ ldpc_config.seed # None
    /\ rng = None
    /\ prev[1].decoded_bitstream # None

--------------------------------------------------------------------------
(* Properties of the functions called on their own *)

\* C11: the recovery of the message from decoded bytes never fails and leaves no
\* trailing NUL; when the bytes are not well-formed UTF-8, the recovered message
\* has U+FFFD where the ill-formed bytes were
C11_InvalidUtf8Replaced ==
    (call # None /\ ret # None /\ call[1].fn = "recover_message") =>
        LET bytes == call[1].args[1]
            message == ret[1].recovered_message
            WellFormedFrom[i \in 1..(Len(bytes) + 1)] ==
                IF i > Len(bytes) THEN TRUE
                ELSE /\ utf8_len(bytes, i) > 0
                     /\ WellFormedFrom[i + utf8_len(bytes, i)]
        IN  /\ ret[1].err = ""
            /\ message = <<>> \/ message[Len(message)] # 0
            /\ ~WellFormedFrom[1] => \E k \in 1..Len(message) : message[k] = 65533

C13_InvalidArguments ==
    (call # None /\ ret # None) =>
        /\ call[1].fn = "int_to_bitstream" =>
              LET v == call[1].args[1]
                  n == call[1].args[2]
              IN  (n <= 0 \/ (n <= 30 /\ v >= Pow2(n))) =>
                      ret[1].err # "" /\ ret[1].bits = <<>>
        /\ call[1].fn = "hex_to_bitstream" =>
              (call[1].args[2] % 8 # 0 => ret[1].err # "" /\ ret[1].bits = <<>>)

\* a value of exactly 2^n has been refused for the width n
C13_Witness ==
    /\ call # None /\ ret # None /\ call[1].fn = "int_to_bitstream"
    /\ call[1].args[2] > 0
    /\ call[1].args[2] <= 30
    /\ call[1].args[1] = Pow2(call[1].args[2])
    /\ ret[1].err = "ValueError: value won't fit"

\* C14: string_to_bitstream(s) returns 8 bits for each UTF-8 byte of s (one byte
\* for a character below U+0080, two below U+0800, three below U+10000, four
\* above), and the bits packed into bytes, most significant bit first, decode to s
C14_StringRoundTrip ==
    (call # None /\ ret # None /\ call[1].fn = "string_to_bitstream") =>
        LET text == call[1].args[1]
            bits == ret[1].bits
            width(cp) == IF cp < 128 THEN 1 ELSE IF cp < 2048 THEN 2
                         ELSE IF cp < 65536 THEN 3 ELSE 4
            ByteCount[i \in 0..Len(text)] ==
                IF i = 0 THEN 0 ELSE ByteCount[i - 1] + width(text[i])
            byte(b) == 128 * bits[8 * b - 7] + 64 * bits[8 * b - 6] + 32 * bits[8 * b - 5]
                       + 16 * bits[8 * b - 4] + 8 * bits[8 * b - 3] + 4 * bits[8 * b - 2]
                       + 2 * bits[8 * b - 1] + bits[8 * b]
            bytes == [b \in 1..ByteCount[Len(text)] |-> byte(b)]
        IN  /\ ret[1].err = ""
            /\ Len(bits) = 8 * ByteCount[Len(text)]
            /\ \A j \in 1..Len(bits) : bits[j] \in {0, 1}
            /\ decode_utf8_ignore(bytes) = text
            /\ \A i \in 1..Len(text) : text[i] < 128 => bytes[ByteCount[i]] = text[i]

\* a text with a character of several bytes next to an ASCII one has been converted
C14_Witness ==
    /\ call # None /\ ret # None /\ call[1].fn = "string_to_bitstream"
    /\ \E i, j \in 1..Len(call[1].args[1]) :
          call[1].args[1][i] >= 128 /\ call[1].args[1][j] = 65
    /\ Len(ret[1].bits) > 16

\* C15: for every hexadecimal string s and every multiple of 8 expected_bits,
\* hex_to_bitstream(s, expected_bits) returns expected_bits bits: the digits of s
\* after expected_bits/4 - len(s) leading zero digits, each digit most significant
\* bit first
C15_HexWidth ==
    (call # None /\ ret # None /\ call[1].fn = "hex_to_bitstream") =>
        LET hex == call[1].args[1]
            n == call[1].args[2]
            pad == n \div 4 - Len(hex)
            digit(d) == IF d <= pad THEN 0 ELSE hex[d - pad]
        IN  (n >= 0 /\ n % 8 = 0) =>
                /\ ret[1].err = ""
                /\ Len(ret[1].bits) = n
                /\ \A j \in 1..n :
                      ret[1].bits[j]
                          = (digit(((j - 1) \div 4) + 1) \div Pow2(3 - ((j - 1) % 4))) % 2

\* C17: the tap index vector of the matched filter has num_taps = 101 entries,
\* runs from -50 to +50 and is symmetric about 0
C17_MatchedFilterTaps ==
    (call # None /\ ret # None /\ call[1].fn = "rrc_filter_taps") =>
        LET t_rrc == ret[1].t_rrc
        IN  /\ Len(t_rrc) = 101
            /\ t_rrc[1] = -50
            /\ t_rrc[Len(t_rrc)] = 50
            /\ \A i \in 1..Len(t_rrc) : t_rrc[i] = -t_rrc[Len(t_rrc) + 1 - i]

\* C18: for every sample rate, symbol rate R_s and frame count, the generated
\* signal has total_frames * total_symbols * sps samples, with sps the integer
\* nearest to sample_rate / R_s, and lasts total_frames * total_symbols / R_s seconds
C18_SignalSize ==
    (call # None /\ ret # None /\ call[1].fn = "signal_size") =>
        LET sample_rate == call[1].args[1]
            symbol_rate == call[1].args[2]
            frames == call[1].args[3]
            sps == ret[1].samples_per_symbol
        IN  /\ 2 * Abs(sample_rate - sps * symbol_rate) <= symbol_rate
            /\ ret[1].num_samples = frames * total_symbols * sps
            /\ ret[1].phase_qpsk_raw = ret[1].num_samples
            /\ ret[1].duration_seconds.num * symbol_rate
                  = frames * total_symbols * ret[1].duration_seconds.den

--------------------------------------------------------------------------
(* Properties of the receiver, continued *)

\* C20: whenever demodulate_and_decode returns a result, with the sync pattern
\* found at p in a stream of len bits, the decoded bits come from
\* floor((len - p) / frame_bits) frames and the returned decoded_bitstream is as
\* long as the payload, so the post-FEC count compared arrays of equal length
C20_DecodedLength ==
    pc = "done" =>
        LET result == demodulation[1]
            frames == (Len(result.demodulated_bitstream) - sync_location) \div frame_bits
        IN  /\ sync_location >= 0
            /\ Len(result.decoded_bitstream) <= frames * message_bits
            /\ Len(result.decoded_bitstream) = Len(encoding[1].payload_bits)

--------------------------------------------------------------------------
(* Properties of the timing and carrier recovery loop *)

\* C16: on an all-zero baseband, timing_error, integrator_timing,
\* integrator_carrier, nco_freq_rad and nco_phase stay 0 and every emitted symbol,
\* timing error and NCO frequency is 0; every iteration advances i_in by exactly
\* samples_per_symbol
C16_LoopStability ==
    [][LET silent(r) == \A i \in 1..Len(r.baseband_signal) : r.baseband_signal[i] = 0
           stable(r) == /\ r.timing_error = 0
                        /\ r.integrator_timing = 0
                        /\ r.integrator_carrier = 0
                        /\ r.nco_freq_rad = 0
                        /\ r.nco_phase = 0
                        /\ r.out_symbols \in {None, Some(0)}
                        /\ r.out_timing_error \in {None, Some(0)}
                        /\ r.out_nco_freq \in {None, Some(0)}
       IN  (recovery # None /\ recovery' # None /\ silent(recovery[1])) =>
              /\ stable(recovery[1])
              /\ stable(recovery'[1])
              /\ (recovery[1].pc = "loop" /\ recovery'[1].pc = "loop") =>
                    recovery'[1].i_in
                        = recovery[1].i_in + recovery[1].samples_per_symbol * Micro]_vars

\* the loop has run to the end of an all-zero baseband and emitted symbols
C16_Witness ==
    /\ recovery # None
    /\ recovery[1].pc = "returned"
    /\ Len(recovery[1].baseband_signal) = MaxSignalLen
    /\ \A i \in 1..Len(recovery[1].baseband_signal) : recovery[1].baseband_signal[i] = 0
    /\ recovery[1].out_symbols = Some(0)
    /\ recovery[1].i_in >= (MaxSignalLen - recovery[1].samples_per_symbol - 1) * Micro

\* C19: the recovery loop terminates for every baseband input and every sequence
\* of timing errors: eventually it has returned
C19_LoopTerminates == <>(recovery # None /\ recovery[1].pc = "returned")

--------------------------------------------------------------------------
(* Properties of the encoder, continued *)

\* C21: every payload that needs at most max_frames frames is assembled: the
\* command word of every frame fits the command field, so the encoder fails only
\* on a payload of more than max_frames frames
C21_MaxFramesAssemble ==
    (pc = "failed" /\ matrices # None /\ encoding = None) =>
        LET text == IF plaintext = None THEN plaintext_source ELSE plaintext[1]
            n == 8 * Len(Utf8Encode(text))
        IN  frames_needed(Zeros(n), matrices[1]) > max_frames

==========================================================================
